---- MODULE Spec2Model ----
\* A model of the design session and the code-generation subsystem of
\* ProGamerGUI Builder: the StateManager (widgets, id counter, project data,
\* settings, selection and the undo/redo snapshot stacks), ProjectManager's
\* open_project and export_code, the generator registry and the two concrete
\* generators (PyQt6, Tkinter) with the shared identifier resolution of
\* BaseGenerator.
\*
\* Strings that the code computes with (widget ids, widget names, variable
\* names, handler names, action targets) are sequences of one-character
\* strings, so that formatting, parsing, sanitizing, suffixing and prefixing
\* are computed as the code computes them.
\* Generated source text is modelled by its statements: the window header, one
\* block of statements per widget, in project order, and one entry per emitted
\* handler; the statements for text, font, colour and enabled state of a widget
\* are left out.
\* A widget is a record of its id, its type and the properties the modelled
\* code reads (name, action, geometry, placeholder, colors); project_data keeps
\* name, framework and main_window (the entries widgets, canvas_settings and
\* layer_config of the dict are overwritten by get_project_data and left out).
EXTENDS Integers, Sequences, FiniteSets, TLC

VARIABLES
    widgets,            \* StateManager.widgets: the widgets in insertion order
    widget_counter,     \* StateManager.widget_counter
    target_framework,   \* StateManager.target_framework
    project_data,       \* StateManager.project_data
    selected_widget_id, \* StateManager.selected_widget_id
    canvas_settings,    \* StateManager.canvas_settings
    layer_config,       \* StateManager.layer_config
    undo_stack,         \* StateManager.undo_stack: snapshots, oldest first
    redo_stack,         \* StateManager.redo_stack
    unsaved_changes,    \* StateManager.unsaved_changes
    pc,                 \* "idle", or "exported" / "opened": the call has run and its message is on screen
    export,             \* what the last export_code call did (NoExport while idle)
    opening,            \* what the last open_project call did (NoOpening while idle)
    validation          \* the last validate_properties call and what it gave

\* the fields of the StateManager
sm_vars == <<widgets, widget_counter, target_framework, project_data, selected_widget_id,
             canvas_settings, layer_config, undo_stack, redo_stack, unsaved_changes>>

vars == <<widgets, widget_counter, target_framework, project_data, selected_widget_id,
          canvas_settings, layer_config, undo_stack, redo_stack, unsaved_changes,
          pc, export, opening, validation>>

-----------------------------------------------------------------------------
\* Bounds of the model.

MaxWidgets == 3
MaxNameLen == 3
\* the recorded operations of one session: the undo stack holds at most this many snapshots
MaxHistory == 4
\* the highest widget id issued
MaxCounter == 4
\* the widgets added from the palette in a canvas session (a duplicate can be
\* one more), and the coordinates a drag stays within
MaxCanvasWidgets == 1
MaxCoord == 140

-----------------------------------------------------------------------------
\* Characters and string literals.

LowerCase == {"a","b","c","d","e","f","g","h","i","j","k","l","m",
              "n","o","p","q","r","s","t","u","v","w","x","y","z"}
UpperCase == {"A","B","C","D","E","F","G","H","I","J","K","L","M",
              "N","O","P","Q","R","S","T","U","V","W","X","Y","Z"}
DigitChars == {"0","1","2","3","4","5","6","7","8","9"}
Digits == <<"0","1","2","3","4","5","6","7","8","9">>

\* str(n) for a non-negative integer, as the f-string formats it
RECURSIVE IntStr(_)
IntStr(n) ==
    IF n < 10 THEN <<Digits[n + 1]>>
    ELSE IntStr(n \div 10) \o <<Digits[(n % 10) + 1]>>

S_widget == <<"w","i","d","g","e","t">>
S_on_ == <<"o","n","_">>
S__clicked == <<"_","c","l","i","c","k","e","d">>

-----------------------------------------------------------------------------
\* Python dict helpers.

EmptyDict == [x \in {} |-> 0]
DictSet(d, k, v) == [x \in (DOMAIN d) \cup {k} |-> IF x = k THEN v ELSE d[x]]
DictGet(d, k, default) == IF k \in DOMAIN d THEN d[k] ELSE default

\* action.get("type") on the widget's action descriptor; properties.get("action", {})
\* yields the empty dict when the widget has no descriptor, and then None
ActionGetType(action) == IF action.present THEN action.type ELSE "<None>"
\* action.get("type", "none")
ActionGetTypeOrNone(action) == IF action.present THEN action.type ELSE "none"

-----------------------------------------------------------------------------
\* Widget ids, and StateManager.widgets as an insertion-ordered dict.

S_widget_ == <<"w","i","d","g","e","t","_">>

\* f"widget_{n}"
widget_id_of(n) == S_widget_ \o IntStr(n)

\* w_id.startswith("widget_")
startswith_widget_(w_id) ==
    /\ Len(w_id) >= Len(S_widget_)
    /\ SubSeq(w_id, 1, Len(S_widget_)) = S_widget_

\* w_id.split("_")[-1]: what follows the last underscore
split_last(w_id) ==
    IF \E k \in 1..Len(w_id) : w_id[k] = "_"
    THEN LET k == CHOOSE j \in 1..Len(w_id) :
                      /\ w_id[j] = "_"
                      /\ \A m \in (j + 1)..Len(w_id) : w_id[m] /= "_"
         IN  SubSeq(w_id, k + 1, Len(w_id))
    ELSE w_id

DigitValue(c) == CHOOSE d \in 0..9 : Digits[d + 1] = c

RECURSIVE int_digits(_)
int_digits(str) ==
    IF Len(str) = 1 THEN DigitValue(str[1])
    ELSE 10 * int_digits(SubSeq(str, 1, Len(str) - 1)) + DigitValue(str[Len(str)])

\* int(str) for a string of decimal digits; any other string of the model's ids
\* (empty, or with a letter) raises ValueError
int(str) ==
    IF str /= <<>> /\ \A k \in 1..Len(str) : str[k] \in DigitChars
    THEN [raised |-> "none", value |-> int_digits(str)]
    ELSE [raised |-> "ValueError", value |-> 0]

\* the keys of the dict
WidgetIds(ws) == {ws[i].id : i \in 1..Len(ws)}

\* self.widgets[widget_id] = widget: a new key goes to the end, an existing key
\* keeps its place and gets the new value
widgets_setitem(ws, widget) ==
    IF widget.id \in WidgetIds(ws)
    THEN [i \in 1..Len(ws) |-> IF ws[i].id = widget.id THEN widget ELSE ws[i]]
    ELSE Append(ws, widget)

\* del self.widgets[widget_id]
widgets_delitem(ws, widget_id) ==
    LET Kept(w) == w.id /= widget_id
    IN  SelectSeq(ws, Kept)

\* self.widgets[widget_id]
widgets_getitem(ws, widget_id) ==
    ws[CHOOSE i \in 1..Len(ws) : ws[i].id = widget_id]

\* d.update(other) on a dict held as a function
dict_update(d, other) ==
    [k \in (DOMAIN d) \cup (DOMAIN other) |-> IF k \in DOMAIN other THEN other[k] ELSE d[k]]

-----------------------------------------------------------------------------
\* BaseGenerator: identifier sanitization and resolution.

IsIdentChar(c) == c \in LowerCase \cup UpperCase \cup DigitChars \cup {"_"}

\* re.sub(r'[^a-zA-Z0-9_]', '_', name)
RECURSIVE re_sub(_)
re_sub(name) ==
    IF name = <<>> THEN <<>>
    ELSE <<IF IsIdentChar(Head(name)) THEN Head(name) ELSE "_">> \o re_sub(Tail(name))

sanitize_name_no_prefix(name) ==
    LET sanitized == re_sub(name)
    IN  IF sanitized /= <<>> THEN sanitized ELSE S_widget

sanitize_name(name) ==
    LET sanitized == re_sub(name)
        prefixed == IF sanitized /= <<>> /\ sanitized[1] \in DigitChars
                    THEN <<"_">> \o sanitized
                    ELSE sanitized
    IN  IF prefixed /= <<>> THEN prefixed ELSE S_widget

RECURSIVE resolve_loop(_, _, _, _)
resolve_loop(ws, i, name_counts, resolved_names) ==
    IF i > Len(ws) THEN resolved_names
    ELSE LET widget == ws[i]
             base_name == sanitize_name(widget.name)
             seen == base_name \in DOMAIN name_counts
             count == IF seen THEN name_counts[base_name] + 1 ELSE 0
             final_name == IF seen THEN base_name \o <<"_">> \o IntStr(count)
                           ELSE base_name
         IN  resolve_loop(ws, i + 1,
                          DictSet(name_counts, base_name, count),
                          DictSet(resolved_names, widget.id, final_name))

\* the same loop with the counter of a base name starting at 1 instead of 0
RECURSIVE resolve_loop_from_one(_, _, _, _)
resolve_loop_from_one(ws, i, name_counts, resolved_names) ==
    IF i > Len(ws) THEN resolved_names
    ELSE LET widget == ws[i]
             base_name == sanitize_name(widget.name)
             seen == base_name \in DOMAIN name_counts
             count == IF seen THEN name_counts[base_name] + 1 ELSE 1
             final_name == IF seen THEN base_name \o <<"_">> \o IntStr(count)
                           ELSE base_name
         IN  resolve_loop_from_one(ws, i + 1,
                                   DictSet(name_counts, base_name, count),
                                   DictSet(resolved_names, widget.id, final_name))

resolve_variable_names_from_one(ws) == resolve_loop_from_one(ws, 1, EmptyDict, EmptyDict)

resolve_variable_names(ws) == resolve_loop(ws, 1, EmptyDict, EmptyDict)

-----------------------------------------------------------------------------
\* Generated text: statements and handlers.

\* one generated statement: kind is "construct" (var = cls(parent, ..., command=...)),
\* "geometry" (the placement statement, args its numbers) or "placeholder_text"
Stmt(kind, var, cls, command, args) ==
    [kind |-> kind, var |-> var, cls |-> cls, command |-> command, args |-> args]

\* one generated method: name, and what its body does
Handler(name, kind, api, target, note) ==
    [name |-> name, kind |-> kind, api |-> api, target |-> target, note |-> note]

\* a call that returned value v / a call that raised exception e
Returned(v) == [raised |-> "none", value |-> v]
Raised(e) == [raised |-> e, value |-> <<>>]

\* x, y, width, height = geometry
GeometryUnpacks(geometry) == Len(geometry) = 4

\* the first exception raised by a sequence of calls, "none" when none raised
FirstRaised(results) ==
    IF \E i \in 1..Len(results) : results[i].raised /= "none"
    THEN LET i == CHOOSE k \in 1..Len(results) :
                      /\ results[k].raised /= "none"
                      /\ \A j \in 1..(k - 1) : results[j].raised = "none"
         IN  results[i].raised
    ELSE "none"

on_clicked(var_name) == S_on_ \o var_name \o S__clicked

\* project_data.get("name", ...).replace(" ", "")
RECURSIVE project_name(_)
project_name(name) ==
    IF name = <<>> THEN <<>>
    ELSE (IF Head(name) = " " THEN <<>> ELSE <<Head(name)>>) \o project_name(Tail(name))

-----------------------------------------------------------------------------
\* PyQt6Generator.

Qt_widget_class_map ==
    [Button |-> "QPushButton", Label |-> "QLabel", Entry |-> "QLineEdit",
     Text |-> "QTextEdit", Checkbox |-> "QCheckBox", RadioButton |-> "QRadioButton",
     ComboBox |-> "QComboBox", ListBox |-> "QListWidget", Frame |-> "QFrame",
     Tabs |-> "QTabWidget", Slider |-> "QSlider", ProgressBar |-> "QProgressBar",
     SpinBox |-> "QSpinBox", ScrollArea |-> "QScrollArea", GroupBox |-> "QGroupBox",
     Splitter |-> "QSplitter", StackedWidget |-> "QStackedWidget"]

Qt_get_file_extension == ".py"

Qt_generate_imports(pdata) ==
    {"QApplication", "QMainWindow", "QWidget", "QVBoxLayout", "QHBoxLayout", "QGridLayout"}
    \cup {Qt_widget_class_map[pdata.widgets[i].type] :
            i \in {k \in 1..Len(pdata.widgets) :
                     pdata.widgets[k].type \in DOMAIN Qt_widget_class_map}}

Qt_generate_widget_specific_code(widget, var_name) ==
    IF widget.type = "Entry" /\ widget.placeholder
    THEN <<Stmt("placeholder_text", var_name, "", <<>>, <<>>)>>
    ELSE <<>>

Qt_generate_widget_code(widget) ==
    LET qt_class == DictGet(Qt_widget_class_map, widget.type, "QWidget")
        var_name == sanitize_name(widget.name)
        creation == Stmt("construct", var_name, qt_class, <<>>, <<>>)
    IN  IF ~GeometryUnpacks(widget.geometry) THEN Raised("ValueError")
        ELSE Returned(<<creation, Stmt("geometry", var_name, "", <<>>, widget.geometry)>>
                      \o Qt_generate_widget_specific_code(widget, var_name))

Qt_generate_button_handler(button_name, action) ==
    LET method_name == on_clicked(button_name)
        action_type == ActionGetTypeOrNone(action)
    IN  IF action_type = "message"
        THEN Handler(method_name, "show_message", "QMessageBox.information", action.target, "")
        ELSE IF action_type = "function"
        THEN Handler(method_name, "call_method", "self", action.target, "")
        ELSE Handler(method_name, "todo_pass", "", <<>>, action_type)

RECURSIVE Qt_generate_event_handlers(_, _)
Qt_generate_event_handlers(ws, var_names) ==
    IF ws = <<>> THEN <<>>
    ELSE LET widget == Head(ws)
             emitted ==
                 IF /\ widget.id \in DOMAIN var_names
                    /\ widget.type = "Button"
                    /\ ActionGetType(widget.action) /= "none"
                 THEN <<Qt_generate_button_handler(var_names[widget.id], widget.action)>>
                 ELSE <<>>
         IN  emitted \o Qt_generate_event_handlers(Tail(ws), var_names)

Qt_class_text(codes, raised, handlers) ==
    IF raised /= "none" THEN Raised(raised)
    ELSE Returned([blocks |-> [i \in 1..Len(codes) |-> codes[i].value],
                   handlers |-> handlers])

Qt_class_of(codes, handlers) == Qt_class_text(codes, FirstRaised(codes), handlers)

Qt_generate_class_definition(ws, var_names) ==
    Qt_class_of([i \in 1..Len(ws) |-> Qt_generate_widget_code(ws[i])],
                Qt_generate_event_handlers(ws, var_names))

\* the main file's text, or the exception that ended its generation; the record
\* carries the resolved names (a local of generate_main_file) beside the text
Qt_main_text(var_names, imports, window, class_def) ==
    [raised |-> class_def.raised,
     var_names |-> var_names,
     value |-> IF class_def.raised = "none"
               THEN [imports |-> imports,
                     window |-> window,
                     blocks |-> class_def.value.blocks,
                     handlers |-> class_def.value.handlers]
               ELSE <<>>]

\* the class header: class <name>(QMainWindow), setWindowTitle, setGeometry
Qt_window_header(pdata) ==
    [class_name |-> project_name(pdata.name),
     title |-> pdata.main_window.title,
     geometry |-> pdata.main_window.geometry,
     bg |-> ""]

Qt_main_file_with(pdata, var_names) ==
    Qt_main_text(var_names, Qt_generate_imports(pdata),
                 Qt_window_header(pdata),
                 Qt_generate_class_definition(pdata.widgets, var_names))

Qt_generate_main_file(pdata) ==
    Qt_main_file_with(pdata, resolve_variable_names(pdata.widgets))

-----------------------------------------------------------------------------
\* TkinterGenerator.

Tk_widget_class_map ==
    [Button |-> "tk.Button", Label |-> "tk.Label", Entry |-> "tk.Entry",
     Text |-> "tk.Text", Checkbox |-> "tk.Checkbutton", RadioButton |-> "tk.Radiobutton",
     ComboBox |-> "ttk.Combobox", ListBox |-> "tk.Listbox", Frame |-> "tk.Frame",
     Tabs |-> "ttk.Notebook", Slider |-> "tk.Scale", ProgressBar |-> "ttk.Progressbar",
     SpinBox |-> "tk.Spinbox", ScrollArea |-> "tk.Frame"]

Tk_get_file_extension == ".py"

Tk_generate_imports(pdata) ==
    {"tkinter", "messagebox"}
    \cup (IF \E i \in 1..Len(pdata.widgets) :
               pdata.widgets[i].type \in {"ComboBox", "ProgressBar", "Tabs"}
          THEN {"ttk"} ELSE {})

\* the command= option of the construction statement, <<>> when there is none
Tk_generate_widget_specific_options(widget) ==
    IF widget.type = "Button" /\ ActionGetType(widget.action) /= "none"
    THEN on_clicked(sanitize_name(widget.name))
    ELSE <<>>

Tk_generate_widget_post_creation_code(widget, var_name) ==
    IF widget.type = "Entry" /\ widget.placeholder
    THEN <<Stmt("placeholder_text", var_name, "", <<>>, <<>>)>>
    ELSE <<>>

Tk_generate_widget_code(widget) ==
    LET tk_class == DictGet(Tk_widget_class_map, widget.type, "tk.Widget")
        var_name == sanitize_name(widget.name)
        creation == Stmt("construct", var_name, tk_class,
                         Tk_generate_widget_specific_options(widget), <<>>)
    IN  IF ~GeometryUnpacks(widget.geometry) THEN Raised("ValueError")
        ELSE Returned(<<creation, Stmt("geometry", var_name, "", <<>>, widget.geometry)>>
                      \o Tk_generate_widget_post_creation_code(widget, var_name))

Tk_generate_button_handler_swapped(button_name, action) ==
    LET method_name == on_clicked(button_name)
        action_type == ActionGetTypeOrNone(action)
    IN  IF action_type = "function"
        THEN Handler(method_name, "show_message", "messagebox.showinfo", action.target, "")
        ELSE IF action_type = "message"
        THEN Handler(method_name, "call_method", "self", action.target, "")
        ELSE Handler(method_name, "todo_pass", "", <<>>, action_type)

Tk_generate_button_handler(button_name, action) ==
    LET method_name == on_clicked(button_name)
        action_type == ActionGetTypeOrNone(action)
    IN  IF action_type = "message"
        THEN Handler(method_name, "show_message", "messagebox.showinfo", action.target, "")
        ELSE IF action_type = "function"
        THEN Handler(method_name, "call_method", "self", action.target, "")
        ELSE Handler(method_name, "todo_pass", "", <<>>, action_type)

Tk_placeholder_handlers ==
    <<Handler(<<"c","l","e","a","r","_","p","l","a","c","e","h","o","l","d","e","r">>,
              "placeholder_helper", "", <<>>, ""),
      Handler(<<"r","e","s","t","o","r","e","_","p","l","a","c","e","h","o","l","d","e","r">>,
              "placeholder_helper", "", <<>>, "")>>

RECURSIVE Tk_button_handlers(_, _)
Tk_button_handlers(ws, var_names) ==
    IF ws = <<>> THEN <<>>
    ELSE LET widget == Head(ws)
             emitted ==
                 IF /\ widget.id \in DOMAIN var_names
                    /\ widget.type = "Button"
                    /\ ActionGetType(widget.action) /= "none"
                 THEN <<Tk_generate_button_handler(var_names[widget.id], widget.action)>>
                 ELSE <<>>
         IN  emitted \o Tk_button_handlers(Tail(ws), var_names)

Tk_generate_event_handlers(ws, var_names) ==
    LET has_placeholder == \E i \in 1..Len(ws) : ws[i].type = "Entry" /\ ws[i].placeholder
    IN  (IF has_placeholder THEN Tk_placeholder_handlers ELSE <<>>)
        \o Tk_button_handlers(ws, var_names)

Tk_class_text(codes, raised, handlers) ==
    IF raised /= "none" THEN Raised(raised)
    ELSE Returned([blocks |-> [i \in 1..Len(codes) |-> codes[i].value],
                   handlers |-> handlers])

Tk_class_of(codes, handlers) == Tk_class_text(codes, FirstRaised(codes), handlers)

Tk_generate_class_definition(ws, var_names) ==
    Tk_class_of([i \in 1..Len(ws) |-> Tk_generate_widget_code(ws[i])],
                Tk_generate_event_handlers(ws, var_names))

\* the main file's text, or the exception that ended its generation; the record
\* carries the resolved names (a local of generate_main_file) beside the text
Tk_main_text(var_names, imports, window, class_def) ==
    [raised |-> class_def.raised,
     var_names |-> var_names,
     value |-> IF class_def.raised = "none"
               THEN [imports |-> imports,
                     window |-> window,
                     blocks |-> class_def.value.blocks,
                     handlers |-> class_def.value.handlers]
               ELSE <<>>]

\* the class header: class <name>, root.title, root.geometry and, when the
\* window has a background colour, root.configure(bg=...)
Tk_window_header(pdata) ==
    [class_name |-> project_name(pdata.name),
     title |-> pdata.main_window.title,
     geometry |-> pdata.main_window.geometry,
     bg |-> DictGet(pdata.main_window.colors, "background", "")]

Tk_main_file_with(pdata, var_names) ==
    Tk_main_text(var_names, Tk_generate_imports(pdata),
                 Tk_window_header(pdata),
                 Tk_generate_class_definition(pdata.widgets, var_names))

Tk_generate_main_file(pdata) ==
    Tk_main_file_with(pdata, resolve_variable_names(pdata.widgets))

-----------------------------------------------------------------------------
\* The generator registry and BaseGenerator.generate_project.

\* the keys registered when the generator modules are loaded
_GENERATORS_REGISTRY == {"PyQt6", "Tkinter"}

\* a lookup that falls back to a default generator for an unknown key
get_generator_fallback(framework_name) ==
    IF framework_name \in _GENERATORS_REGISTRY THEN framework_name ELSE "PyQt6"

\* dict.get: the generator registered under the key, "None" when there is none
get_generator(framework_name) ==
    IF framework_name \in _GENERATORS_REGISTRY THEN framework_name ELSE "None"

get_file_extension(generator) ==
    IF generator = "PyQt6" THEN Qt_get_file_extension ELSE Tk_get_file_extension

generate_main_file(generator, pdata) ==
    IF generator = "PyQt6" THEN Qt_generate_main_file(pdata)
    ELSE Tk_generate_main_file(pdata)

generate_additional_files(generator, pdata) == EmptyDict

\* f"main{ext}"
MainFileName(ext) == <<"main", ext>>

\* files = {main_filename: main}; files.update(additional_files)
project_files(main_filename, main, additional_files) ==
    [raised |-> main.raised,
     var_names |-> main.var_names,
     value |-> IF main.raised = "none"
               THEN [f \in {main_filename} \cup DOMAIN additional_files |->
                       IF f \in DOMAIN additional_files THEN additional_files[f]
                       ELSE main.value]
               ELSE EmptyDict]

generate_project(generator, pdata) ==
    project_files(MainFileName(get_file_extension(generator)),
                  generate_main_file(generator, pdata),
                  generate_additional_files(generator, pdata))

\* generate_project of a generator of this family whose generate_additional_files
\* is overridden and returns additional_files
generate_project_with(generator, pdata, additional_files) ==
    project_files(MainFileName(get_file_extension(generator)),
                  generate_main_file(generator, pdata),
                  additional_files)

-----------------------------------------------------------------------------
\* StateManager and ProjectManager.

\* the constant of __init__: the undo stack is trimmed to this many snapshots
max_undo_levels == 50

\* None, for an id
NoneId == <<>>

S_New_Project == <<"N","e","w"," ","P","r","o","j","e","c","t">>

\* the properties of the main window new_project writes
DefaultMainWindow ==
    [title |-> "My Application",
     geometry |-> <<100, 100, 800, 600>>,
     resizable |-> TRUE,
     colors |-> [background |-> "#F0F0F0", text |-> "#000000"]]

DefaultCanvasSettings ==
    [grid_size |-> 20, grid_visible |-> TRUE, snap_enabled |-> TRUE, zoom_level |-> "1.0"]

DefaultLayerConfig ==
    [total_layers |-> 5,
     layer_names |-> <<"Background", "Content", "Controls", "Overlays", "Debug">>]

\* get_current_state() of a StateManager holding these values (a deep copy)
current_state(pd, ws, counter, selected, settings, layers) ==
    [project_data |-> pd, widgets |-> ws, widget_counter |-> counter,
     selected_widget_id |-> selected, canvas_settings |-> settings,
     layer_config |-> layers]

get_current_state ==
    current_state(project_data, widgets, widget_counter, selected_widget_id,
                  canvas_settings, layer_config)

\* a push that never drops the oldest snapshot
stack_push_untrimmed(stack, state) ==
    Append(stack, state)

\* undo_stack.append(state), then pop(0) when the stack is over max_undo_levels
stack_push(stack, state) ==
    LET appended == Append(stack, state)
    IN  IF Len(appended) > max_undo_levels THEN Tail(appended) ELSE appended

\* {**project_data, "widgets": list(widgets.values()), "canvas_settings": ..., "layer_config": ...}
project_data_of(pd, ws, settings, layers) ==
    [name |-> pd.name, framework |-> pd.framework, main_window |-> pd.main_window,
     widgets |-> ws, canvas_settings |-> settings, layer_config |-> layers]

get_project_data == project_data_of(project_data, widgets, canvas_settings, layer_config)

get_target_framework == target_framework

\* the project_data new_project() writes
new_project_data(framework) ==
    [name |-> S_New_Project, framework |-> framework, main_window |-> DefaultMainWindow]

\* no validate_properties call has been made
NoValidation == [called |-> FALSE, widget_type |-> "", properties |-> <<>>,
                 raised |-> "none", value |-> FALSE]

\* no open_project call is on screen
NoOpening ==
    [doc |-> EmptyDict, validated |-> FALSE, load_called |-> FALSE, raised |-> "none",
     returned |-> FALSE, shown |-> "", before |-> <<>>]

NoExport ==
    [lookup |-> "", chosen |-> FALSE, generate_called |-> FALSE, raised |-> "none",
     var_names |-> EmptyDict, files |-> EmptyDict, written |-> {},
     returned |-> FALSE, shown |-> ""]

\* the files create_export_package writes: the generated ones and the package's own
create_export_package(generated_files) ==
    DOMAIN generated_files
    \cup {<<"requirements.txt">>, <<"README.md">>, <<"run.bat">>, <<"run.sh">>,
          <<"assets/README.md">>}

\* what export_code does once the lookup has returned generator and, when it gets
\* that far, generate_project has returned or raised (generated)
export_outcome(generator, chosen, generated) ==
    IF generator = "None"
    THEN [NoExport EXCEPT !.lookup = generator,
                          !.shown = "Export Failed: No generator available"]
    ELSE IF ~chosen
    THEN [NoExport EXCEPT !.lookup = generator]
    ELSE IF generated.raised /= "none"
    THEN [NoExport EXCEPT !.lookup = generator, !.chosen = TRUE,
                          !.generate_called = TRUE,
                          !.raised = generated.raised,
                          !.var_names = generated.var_names,
                          !.shown = "Export Failed: exception"]
    ELSE [lookup |-> generator, chosen |-> TRUE, generate_called |-> TRUE,
          raised |-> "none",
          var_names |-> generated.var_names, files |-> generated.value,
          written |-> create_export_package(generated.value),
          returned |-> TRUE, shown |-> "Export Successful"]

export_with(generator, chosen) ==
    export_outcome(generator, chosen, generate_project(generator, get_project_data))

\* one call of export_code; chosen: the user picked a target in the save dialog
export_code(chosen) == export_with(get_generator(get_target_framework), chosen)

-----------------------------------------------------------------------------
\* StateManager: restoring, updating and loading; ProjectManager.open_project.

\* every field of the StateManager, as one record
sm_state ==
    [widgets |-> widgets, widget_counter |-> widget_counter,
     target_framework |-> target_framework, project_data |-> project_data,
     selected_widget_id |-> selected_widget_id, canvas_settings |-> canvas_settings,
     layer_config |-> layer_config, undo_stack |-> undo_stack,
     redo_stack |-> redo_stack, unsaved_changes |-> unsaved_changes]

\* update_widget on one widget: properties.update(updates["properties"]), then
\* every other key of updates is set on the widget itself (the widget record
\* holds both kinds of key)
update_widget(widget, updates) ==
    dict_update(IF "properties" \in DOMAIN updates
                THEN dict_update(widget, updates.properties) ELSE widget,
                [k \in (DOMAIN updates) \ {"properties"} |-> updates[k]])

\* update_main_window on the main window, the same way
update_main_window(main_window, updates) ==
    dict_update(IF "properties" \in DOMAIN updates
                THEN dict_update(main_window, updates.properties) ELSE main_window,
                [k \in (DOMAIN updates) \ {"properties"} |-> updates[k]])

\* a validation that does not look at the widgets field
validate_project_data_any_widgets(doc) ==
    /\ "name" \in DOMAIN doc
    /\ "framework" \in DOMAIN doc
    /\ "main_window" \in DOMAIN doc

\* validate_project_data(project_data) for a document that is a JSON object
validate_project_data(doc) ==
    /\ "name" \in DOMAIN doc
    /\ "framework" \in DOMAIN doc
    /\ "main_window" \in DOMAIN doc
    /\ "widgets" \in DOMAIN doc => doc.widgets.is_list

\* the loop of load_project_data: self.widgets[widget["id"]] = widget for every
\* entry that has an id
RECURSIVE load_widgets(_, _)
load_widgets(items, ws) ==
    IF items = <<>> THEN ws
    ELSE load_widgets(Tail(items),
                      IF "id" \in DOMAIN Head(items)
                      THEN widgets_setitem(ws, Head(items)) ELSE ws)

SeqMax(values) == CHOOSE m \in values : \A v \in values : v <= m

\* max([int(w_id.split("_")[-1]) for w_id in keys if w_id.startswith("widget_")]):
\* int() raises ValueError on a suffix that is no number, max() on an empty list
max_widget_id(ws) ==
    LET counted == {i \in 1..Len(ws) : startswith_widget_(ws[i].id)}
    IN  IF \E i \in counted : int(split_last(ws[i].id)).raised /= "none"
        THEN [raised |-> "ValueError", value |-> 0]
        ELSE IF counted = {}
        THEN [raised |-> "ValueError", value |-> 0]
        ELSE [raised |-> "none",
              value |-> SeqMax({int(split_last(ws[i].id)).value : i \in counted})]

\* project_data.copy(): the entries of the document the model keeps
project_data_copy(doc) ==
    [name |-> doc.name, framework |-> doc.framework, main_window |-> doc.main_window]

\* load_project_data once the widgets are in and the counter is known: settings,
\* framework, selection, saved flag and the reset of the undo history
load_rest(doc, ws, counter, settings, layers) ==
    [raised |-> "none",
     widgets |-> ws, widget_counter |-> counter,
     target_framework |-> doc.framework,
     project_data |-> project_data_copy(doc),
     selected_widget_id |-> NoneId,
     canvas_settings |-> settings, layer_config |-> layers,
     undo_stack |-> <<current_state(project_data_copy(doc), ws, counter, NoneId,
                                    settings, layers)>>,
     redo_stack |-> <<>>,
     unsaved_changes |-> FALSE]

\* load_project_data stopped by an exception after project_data and widgets
\* were assigned
load_stopped(doc, ws, exception) ==
    [sm_state EXCEPT !.project_data = project_data_copy(doc), !.widgets = ws]
        @@ [raised |-> exception]

load_with(doc, ws, max_id) ==
    IF ws /= <<>> /\ max_id.raised /= "none" THEN load_stopped(doc, ws, max_id.raised)
    ELSE load_rest(doc, ws,
                   IF ws /= <<>> THEN max_id.value ELSE widget_counter,
                   IF "canvas_settings" \in DOMAIN doc
                   THEN dict_update(canvas_settings, doc.canvas_settings) ELSE canvas_settings,
                   IF "layer_config" \in DOMAIN doc
                   THEN dict_update(layer_config, doc.layer_config) ELSE layer_config)

load_of(doc, ws) == load_with(doc, ws, max_widget_id(ws))

\* StateManager.load_project_data(doc): the fields afterwards, and the exception
\* that stopped it ("none" when it returned)
load_project_data(doc) ==
    IF "widgets" \in DOMAIN doc
    THEN load_of(doc, load_widgets(doc.widgets.items, <<>>))
    ELSE load_rest(doc, widgets, widget_counter,
                   IF "canvas_settings" \in DOMAIN doc
                   THEN dict_update(canvas_settings, doc.canvas_settings) ELSE canvas_settings,
                   IF "layer_config" \in DOMAIN doc
                   THEN dict_update(layer_config, doc.layer_config) ELSE layer_config)

\* open_project once the document is read: what it did, and the fields afterwards
open_outcome(valid, loaded) ==
    IF ~valid
    THEN [validated |-> FALSE, load_called |-> FALSE, raised |-> "none",
          returned |-> FALSE, shown |-> "Invalid Project", before |-> sm_state,
          after |-> sm_state]
    ELSE IF loaded.raised /= "none"
    THEN [validated |-> TRUE, load_called |-> TRUE, raised |-> loaded.raised,
          returned |-> FALSE, shown |-> "Failed to open project", before |-> sm_state,
          after |-> [k \in DOMAIN sm_state |-> loaded[k]]]
    ELSE [validated |-> TRUE, load_called |-> TRUE, raised |-> "none",
          returned |-> TRUE, shown |-> "", before |-> sm_state,
          after |-> [k \in DOMAIN sm_state |-> loaded[k]]]

open_project(doc) == open_outcome(validate_project_data(doc), load_project_data(doc))

-----------------------------------------------------------------------------
\* Inputs.

S_b == <<"b">>
S_b_1 == <<"b","_","1">>
S_1b == <<"1","b">>
S_My_Btn_bang == <<"M","y"," ","B","t","n","!">>
S_My_Btn_space == <<"M","y"," ","B","t","n">>
S_My_Btn == <<"M","y","_","B","t","n">>
S_other == <<"o","t","h","e","r">>
S_Done == <<"D","o","n","e">>
S_run == <<"r","u","n">>

\* declared names that collide after sanitizing, after suffixing, or not at all
NameInputs == {S_b, S_b_1, S_1b, <<>>, S_My_Btn_bang, S_My_Btn_space, S_My_Btn, S_other}

NoAction == [present |-> FALSE, type |-> "", target |-> <<>>]
Action(type, target) == [present |-> TRUE, type |-> type, target |-> target]

GoodGeometry == <<100, 100, 100, 35>>
ShortGeometry == <<100, 100, 100>>

\* the colours canvas.add_widget gives a new widget
CanvasColors == [background |-> "#FFFFFF", foreground |-> "#000000", border |-> "#CCCCCC"]

WidgetData(type, name, action, geometry, placeholder) ==
    [type |-> type, name |-> name, action |-> action, geometry |-> geometry,
     placeholder |-> placeholder, colors |-> CanvasColors, layer |-> 2]

\* the widget descriptions add_widget is called with
WidgetInputs ==
    {WidgetData("Button", n, Action("message", S_Done), GoodGeometry, FALSE) : n \in NameInputs}
    \cup {WidgetData("Button", S_b, a, GoodGeometry, FALSE) :
            a \in {NoAction, Action("none", <<>>), Action("function", S_run),
                   Action("signal", <<>>)}}
    \cup {WidgetData("Button", S_b, Action("message", S_Done), ShortGeometry, FALSE),
          WidgetData("Label", S_b, NoAction, GoodGeometry, FALSE),
          WidgetData("Label", S_b, Action("message", S_Done), GoodGeometry, FALSE),
          WidgetData("Entry", S_b, NoAction, GoodGeometry, TRUE),
          WidgetData("Gizmo", S_b, NoAction, GoodGeometry, FALSE)}

FrameworkInputs == {"PyQt6", "Tkinter", "CustomTkinter"}

\* a file text that is not the main file's
OtherText(label) ==
    [imports |-> {label},
     window |-> [class_name |-> <<>>, title |-> "", geometry |-> <<>>, bg |-> ""],
     blocks |-> <<>>, handlers |-> <<>>]

\* what an overriding generate_additional_files returns: nothing, a stylesheet,
\* a resource manifest, an entry under the main file's name
AdditionalFilesInputs ==
    {EmptyDict,
     [f \in {<<"styles", ".qss">>} |-> OtherText("styles")],
     [f \in {<<"styles", ".qss">>, <<"resources", ".json">>} |-> OtherText("resources")],
     [f \in {<<"main", ".py">>} |-> OtherText("main")]}

\* the widget descriptions of an editing session
SessionWidgetInputs ==
    {WidgetData("Button", S_b, Action("message", S_Done), GoodGeometry, FALSE),
     WidgetData("Label", S_other, NoAction, GoodGeometry, FALSE)}

\* one Button, as the canvas adds it
ButtonInputs == {WidgetData("Button", S_b, Action("message", S_Done), GoodGeometry, FALSE)}

\* the updates update_widget is called with: one field of the colors group, a
\* whole property, and a key outside the properties
WidgetUpdateInputs ==
    {[properties |-> [colors |-> [background |-> "#FF0000"]]],
     [properties |-> [name |-> S_run]],
     [type |-> "Label"]}

\* the updates update_main_window is called with
MainWindowUpdateInputs ==
    {[properties |-> [colors |-> [background |-> "#FF0000"]]],
     [properties |-> [title |-> "Demo"]]}

S_Saved == <<"S","a","v","e","d">>
S_panel == <<"p","a","n","e","l">>
S_widget_x == <<"w","i","d","g","e","t","_","x">>

\* a widget entry of a project document
DocWidget(id, type, name) ==
    dict_update(WidgetData(type, name, Action("message", S_Done), GoodGeometry, FALSE),
                [id |-> id])

\* the values of the widgets field: lists of entries, and a JSON object
DocWidgetsInputs ==
    {[is_list |-> FALSE, items |-> <<>>],
     [is_list |-> TRUE, items |-> <<>>],
     [is_list |-> TRUE, items |-> <<DocWidget(widget_id_of(2), "Button", S_b),
                                    DocWidget(widget_id_of(1), "Label", S_other)>>],
     [is_list |-> TRUE, items |-> <<DocWidget(widget_id_of(1), "Button", S_b),
                                    DocWidget(S_widget_x, "Label", S_other)>>],
     [is_list |-> TRUE, items |-> <<DocWidget(S_panel, "Button", S_b)>>],
     [is_list |-> TRUE, items |-> <<WidgetData("Button", S_b, NoAction, GoodGeometry, FALSE),
                                    DocWidget(widget_id_of(3), "Label", S_other)>>]}

DocMainWindow ==
    [title |-> "Saved Window", geometry |-> <<50, 50, 640, 480>>, resizable |-> FALSE,
     colors |-> [background |-> "#202020", text |-> "#FFFFFF"]]

\* every entry a document of the model can have
FullDoc ==
    [name |-> S_Saved, framework |-> "Tkinter", main_window |-> DocMainWindow,
     canvas_settings |-> [grid_size |-> 10],
     layer_config |-> [total_layers |-> 3]]

Restrict(d, keys) == [k \in keys |-> d[k]]

\* the documents open_project reads: every choice of the entries of FullDoc,
\* and each with no widgets field or one of DocWidgetsInputs
DocInputs ==
    {Restrict(FullDoc, keys) : keys \in SUBSET {"name", "framework", "main_window"}}
    \cup {Restrict(FullDoc, keys) @@ [widgets |-> w] :
             keys \in SUBSET {"name", "framework", "main_window"}, w \in DocWidgetsInputs}
    \cup {FullDoc, FullDoc @@ [widgets |-> [is_list |-> TRUE, items |-> <<>>]]}

Alphabet == {"b", "Z", "7", "_", "!", " "}
StrsUpTo(n) == UNION {[1..k -> Alphabet] : k \in 0..n}

-----------------------------------------------------------------------------
\* Actions.

\* room for one more recorded operation
HistoryRoom == Len(undo_stack) < MaxHistory

\* StateManager.add_widget(widget_data); the callers give name and geometry, so
\* the defaults of those are not needed
AddWidget(widget_data) ==
    /\ pc = "idle"
    /\ Len(widgets) < MaxWidgets
    /\ widget_counter < MaxCounter
    /\ HistoryRoom
    /\ undo_stack' = stack_push(undo_stack, get_current_state)
    /\ redo_stack' = <<>>
    /\ unsaved_changes' = TRUE
    /\ widget_counter' = widget_counter + 1
    /\ widgets' = widgets_setitem(widgets,
                                  dict_update(widget_data,
                                              [id |-> widget_id_of(widget_counter + 1)]))
    /\ selected_widget_id' = widget_id_of(widget_counter + 1)
    /\ UNCHANGED <<target_framework, project_data, canvas_settings, layer_config,
                   pc, export, opening, validation>>

\* StateManager.set_target_framework(framework)
SetTargetFramework(framework) ==
    /\ pc = "idle"
    /\ framework /= target_framework
    /\ HistoryRoom
    /\ target_framework' = framework
    /\ project_data' = [project_data EXCEPT !.framework = framework]
    /\ undo_stack' = stack_push(undo_stack,
                                current_state([project_data EXCEPT !.framework = framework],
                                              widgets, widget_counter, selected_widget_id,
                                              canvas_settings, layer_config))
    /\ redo_stack' = <<>>
    /\ unsaved_changes' = TRUE
    /\ UNCHANGED <<widgets, widget_counter, selected_widget_id, canvas_settings,
                   layer_config, pc, export, opening, validation>>

\* generator.generate_project(get_project_data()) for a registered generator class
\* whose extension point returns additional_files; the result is held as an export is
GenerateProject(generator, additional_files) ==
    /\ pc = "idle"
    /\ export' = export_outcome(generator, TRUE,
                                generate_project_with(generator, get_project_data,
                                                      additional_files))
    /\ pc' = "exported"
    /\ UNCHANGED <<sm_vars, opening, validation>>

\* an export whose generator writes the resolved variable names back into the
\* widgets it was given
ExportCode_renaming(chosen) ==
    /\ pc = "idle"
    /\ export' = export_code(chosen)
    /\ pc' = "exported"
    /\ widgets' = [i \in 1..Len(widgets) |->
                     [widgets[i] EXCEPT !.name = resolve_variable_names(widgets)[widgets[i].id]]]
    /\ UNCHANGED <<widget_counter, target_framework, project_data, selected_widget_id,
                   canvas_settings, layer_config, undo_stack, redo_stack,
                   unsaved_changes, opening, validation>>

\* ProjectManager.export_code(), up to the message box that ends it
ExportCode(chosen) ==
    /\ pc = "idle"
    /\ export' = export_code(chosen)
    /\ pc' = "exported"
    /\ UNCHANGED <<sm_vars, opening, validation>>

\* export_code returns; its locals are gone
ExportReturn ==
    /\ pc = "exported"
    /\ pc' = "idle"
    /\ export' = NoExport
    /\ UNCHANGED <<sm_vars, opening, validation>>

\* a removal that gives the id back: the counter goes down by one
RemoveWidget_decrementing(widget_id) ==
    /\ pc = "idle"
    /\ widget_id \in WidgetIds(widgets)
    /\ HistoryRoom
    /\ undo_stack' = stack_push(undo_stack, get_current_state)
    /\ redo_stack' = <<>>
    /\ unsaved_changes' = TRUE
    /\ widgets' = widgets_delitem(widgets, widget_id)
    /\ widget_counter' = widget_counter - 1
    /\ selected_widget_id' = IF selected_widget_id = widget_id THEN NoneId
                             ELSE selected_widget_id
    /\ UNCHANGED <<target_framework, project_data, canvas_settings,
                   layer_config, pc, export, opening, validation>>

\* StateManager.remove_widget(widget_id), for a widget of the project
RemoveWidget(widget_id) ==
    /\ pc = "idle"
    /\ widget_id \in WidgetIds(widgets)
    /\ HistoryRoom
    /\ undo_stack' = stack_push(undo_stack, get_current_state)
    /\ redo_stack' = <<>>
    /\ unsaved_changes' = TRUE
    /\ widgets' = widgets_delitem(widgets, widget_id)
    /\ selected_widget_id' = IF selected_widget_id = widget_id THEN NoneId
                             ELSE selected_widget_id
    /\ UNCHANGED <<widget_counter, target_framework, project_data, canvas_settings,
                   layer_config, pc, export, opening, validation>>

\* StateManager.update_widget(widget_id, updates), for a widget of the project
UpdateWidget(widget_id, updates) ==
    /\ pc = "idle"
    /\ widget_id \in WidgetIds(widgets)
    /\ widgets' = widgets_setitem(widgets,
                                  update_widget(widgets_getitem(widgets, widget_id), updates))
    /\ UNCHANGED <<widget_counter, target_framework, project_data, selected_widget_id,
                   canvas_settings, layer_config, undo_stack, redo_stack,
                   unsaved_changes, pc, export, opening, validation>>

\* StateManager.update_main_window(updates)
UpdateMainWindow(updates) ==
    /\ pc = "idle"
    /\ project_data' = [project_data EXCEPT
                          !.main_window = update_main_window(project_data.main_window, updates)]
    /\ UNCHANGED <<widgets, widget_counter, target_framework, selected_widget_id,
                   canvas_settings, layer_config, undo_stack, redo_stack,
                   unsaved_changes, pc, export, opening, validation>>

\* restore_state(state): the fields a snapshot holds
restore_state(state) ==
    /\ project_data' = state.project_data
    /\ widgets' = state.widgets
    /\ widget_counter' = state.widget_counter
    /\ selected_widget_id' = state.selected_widget_id
    /\ canvas_settings' = state.canvas_settings
    /\ layer_config' = state.layer_config

\* StateManager.undo(), when there is something to undo
Undo ==
    /\ pc = "idle"
    /\ Len(undo_stack) > 1
    /\ undo_stack' = SubSeq(undo_stack, 1, Len(undo_stack) - 1)
    /\ redo_stack' = Append(redo_stack, undo_stack[Len(undo_stack)])
    /\ restore_state(undo_stack[Len(undo_stack) - 1])
    /\ unsaved_changes' = TRUE
    /\ UNCHANGED <<target_framework, pc, export, opening, validation>>

\* StateManager.redo(), when there is something to redo
Redo ==
    /\ pc = "idle"
    /\ redo_stack /= <<>>
    /\ redo_stack' = SubSeq(redo_stack, 1, Len(redo_stack) - 1)
    /\ undo_stack' = Append(undo_stack, redo_stack[Len(redo_stack)])
    /\ restore_state(redo_stack[Len(redo_stack)])
    /\ unsaved_changes' = TRUE
    /\ UNCHANGED <<target_framework, pc, export, opening, validation>>

\* StateManager.new_project()
NewProject ==
    /\ pc = "idle"
    /\ project_data' = new_project_data(target_framework)
    /\ widgets' = <<>>
    /\ widget_counter' = 0
    /\ selected_widget_id' = NoneId
    /\ unsaved_changes' = FALSE
    /\ undo_stack' = <<current_state(new_project_data(target_framework), <<>>, 0, NoneId,
                                     canvas_settings, layer_config)>>
    /\ redo_stack' = <<>>
    /\ UNCHANGED <<target_framework, canvas_settings, layer_config, pc, export, opening, validation>>

\* the fields of the StateManager become those of the record
sm_becomes(state) ==
    /\ widgets' = state.widgets
    /\ widget_counter' = state.widget_counter
    /\ target_framework' = state.target_framework
    /\ project_data' = state.project_data
    /\ selected_widget_id' = state.selected_widget_id
    /\ canvas_settings' = state.canvas_settings
    /\ layer_config' = state.layer_config
    /\ undo_stack' = state.undo_stack
    /\ redo_stack' = state.redo_stack
    /\ unsaved_changes' = state.unsaved_changes

\* ProjectManager.open_project(filepath) on a file that holds the document doc,
\* up to the message box that ends it
OpenProject(doc) ==
    /\ pc = "idle"
    /\ sm_becomes(open_project(doc).after)
    /\ opening' = [k \in DOMAIN NoOpening |->
                      IF k = "doc" THEN doc ELSE open_project(doc)[k]]
    /\ pc' = "opened"
    /\ UNCHANGED <<export, validation>>

\* open_project returns; its locals are gone
OpenReturn ==
    /\ pc = "opened"
    /\ pc' = "idle"
    /\ opening' = NoOpening
    /\ UNCHANGED <<sm_vars, export, validation>>

\* the state after StateManager.__init__, which ends with new_project()
Init ==
    /\ widgets = <<>>
    /\ widget_counter = 0
    /\ target_framework = "PyQt6"
    /\ project_data = new_project_data("PyQt6")
    /\ selected_widget_id = NoneId
    /\ canvas_settings = DefaultCanvasSettings
    /\ layer_config = DefaultLayerConfig
    /\ undo_stack = <<current_state(new_project_data("PyQt6"), <<>>, 0, NoneId,
                                    DefaultCanvasSettings, DefaultLayerConfig)>>
    /\ redo_stack = <<>>
    /\ unsaved_changes = FALSE
    /\ pc = "idle"
    /\ export = NoExport
    /\ opening = NoOpening
    /\ validation = NoValidation

Next ==
    \/ \E widget_data \in WidgetInputs : AddWidget(widget_data)
    \/ \E framework \in FrameworkInputs : SetTargetFramework(framework)
    \/ \E chosen \in BOOLEAN : ExportCode(chosen)
    \/ ExportReturn

Spec == Init /\ [][Next]_vars

\* the Button of InitSanitize, declared name n
SanitizeButton(n) ==
    dict_update(WidgetData("Button", n, Action("message", S_Done), GoodGeometry, FALSE),
                [id |-> widget_id_of(1)])

\* a project of one Button whose declared name is any string over Alphabet
InitSanitize ==
    /\ \E n \in StrsUpTo(MaxNameLen) :
         /\ widgets = <<SanitizeButton(n)>>
         /\ undo_stack = <<current_state(new_project_data("PyQt6"), <<>>, 0, NoneId,
                                         DefaultCanvasSettings, DefaultLayerConfig),
                           current_state(new_project_data("PyQt6"), <<>>, 0, NoneId,
                                         DefaultCanvasSettings, DefaultLayerConfig)>>
    /\ widget_counter = 1
    /\ target_framework = "PyQt6"
    /\ project_data = new_project_data("PyQt6")
    /\ selected_widget_id = widget_id_of(1)
    /\ canvas_settings = DefaultCanvasSettings
    /\ layer_config = DefaultLayerConfig
    /\ redo_stack = <<>>
    /\ unsaved_changes = TRUE
    /\ pc = "idle"
    /\ export = NoExport
    /\ opening = NoOpening
    /\ validation = NoValidation

NextSanitize ==
    \/ \E framework \in FrameworkInputs : SetTargetFramework(framework)
    \/ \E chosen \in BOOLEAN : ExportCode(chosen)
    \/ ExportReturn

SpecSanitize == InitSanitize /\ [][NextSanitize]_vars

\* adding and removing widgets in one project
NextAddRemove ==
    \/ \E widget_data \in WidgetInputs : AddWidget(widget_data)
    \/ \E widget_id \in WidgetIds(widgets) : RemoveWidget(widget_id)

SpecAddRemove == Init /\ [][NextAddRemove]_vars

\* editing one project: adding, removing, updating, undo and redo
NextEdit ==
    \/ \E widget_data \in SessionWidgetInputs : AddWidget(widget_data)
    \/ \E widget_id \in WidgetIds(widgets) : RemoveWidget(widget_id)
    \/ \E widget_id \in WidgetIds(widgets), updates \in WidgetUpdateInputs :
            UpdateWidget(widget_id, updates)
    \/ Undo
    \/ Redo

SpecEdit == Init /\ [][NextEdit]_vars

\* partial updates of the widgets and of the main window
NextUpdate ==
    \/ \E widget_data \in ButtonInputs : AddWidget(widget_data)
    \/ \E widget_id \in WidgetIds(widgets), updates \in WidgetUpdateInputs :
            UpdateWidget(widget_id, updates)
    \/ \E updates \in MainWindowUpdateInputs : UpdateMainWindow(updates)

SpecUpdate == Init /\ [][NextUpdate]_vars

\* opening project files between edits
NextOpen ==
    \/ \E widget_data \in ButtonInputs : AddWidget(widget_data)
    \/ \E doc \in DocInputs : OpenProject(doc)
    \/ OpenReturn
    \/ NewProject

SpecOpen == Init /\ [][NextOpen]_vars

\* assembling the file map with generators that override the extension point
NextAssembly ==
    \/ \E widget_data \in SessionWidgetInputs : AddWidget(widget_data)
    \/ \E generator \in _GENERATORS_REGISTRY, additional_files \in AdditionalFilesInputs :
            GenerateProject(generator, additional_files)
    \/ ExportReturn

SpecAssembly == Init /\ [][NextAssembly]_vars

\* choosing the framework, editing, undoing and exporting
NextExport ==
    \/ \E widget_data \in SessionWidgetInputs : AddWidget(widget_data)
    \/ \E framework \in FrameworkInputs : SetTargetFramework(framework)
    \/ \E updates \in MainWindowUpdateInputs : UpdateMainWindow(updates)
    \/ Undo
    \/ Redo
    \/ \E chosen \in BOOLEAN : ExportCode(chosen)
    \/ ExportReturn

SpecExport == Init /\ [][NextExport]_vars

-----------------------------------------------------------------------------
\* Observations on the outcome of export_code.

\* generate_project was called by the export on screen
Generated == pc = "exported" /\ export.generate_called
\* ... and returned a file map
GeneratedOK == Generated /\ export.raised = "none"

MainFile == export.files[MainFileName(".py")]
Names(ws) == [i \in 1..Len(ws) |-> ws[i].name]
ResolvedNames == [i \in 1..Len(widgets) |-> export.var_names[widgets[i].id]]

\* the variable a widget's block constructs, and the command its construction names
ConstructStmts(block) == {k \in 1..Len(block) : block[k].kind = "construct"}
ConstructVars(block) == {block[k].var : k \in ConstructStmts(block)}
HandlerNames == {MainFile.handlers[k].name : k \in 1..Len(MainFile.handlers)}

\* the widget's action descriptor is present and its type is other than 'none'
HasAction(widget) == widget.action.present /\ widget.action.type /= "none"

-----------------------------------------------------------------------------
\* C1. The mapping returned by resolve_variable_names has no duplicate values:
\* two different widgets never resolve to the same variable name.
C1_ResolvedNamesUnique ==
    Generated =>
        \A i, j \in DOMAIN export.var_names :
            i /= j => export.var_names[i] /= export.var_names[j]

\* The rule of C2: names are assigned in project order, the first widget with a
\* given sanitized base keeps the base, the n-th widget (n >= 2) with that base
\* gets base_<n-1>.
C2_RuleInProjectOrder ==
    Generated =>
        /\ DOMAIN export.var_names = {widgets[i].id : i \in 1..Len(widgets)}
        /\ \A i \in 1..Len(widgets) :
             LET base == sanitize_name(widgets[i].name)
                 n == Cardinality({j \in 1..i : sanitize_name(widgets[j].name) = base})
             IN  export.var_names[widgets[i].id] =
                     IF n = 1 THEN base ELSE base \o <<"_">> \o IntStr(n - 1)

\* C2 (as amended). Names are assigned in project order: the first widget with a
\* given sanitized base keeps the base, the n-th widget (n >= 2) with that base
\* gets base_<n-1>; 'My Btn', 'My_Btn', 'other' resolve to My_Btn, My_Btn_1, other
\* and 'My Btn!', 'My_Btn', 'other' to My_Btn_, My_Btn, other.
C2_ProjectOrderNaming ==
    /\ C2_RuleInProjectOrder
    /\ Generated /\ Names(widgets) = <<S_My_Btn_space, S_My_Btn, S_other>>
         => ResolvedNames = <<S_My_Btn, S_My_Btn \o <<"_","1">>, S_other>>
    /\ Generated /\ Names(widgets) = <<S_My_Btn_bang, S_My_Btn, S_other>>
         => ResolvedNames = <<S_My_Btn \o <<"_">>, S_My_Btn, S_other>>

\* C2 witness: the second and the third widget of a base have been named
C2_Witness ==
    /\ Generated
    /\ Len(widgets) = 3
    /\ \A i \in 1..3 : sanitize_name(widgets[i].name) = S_b
    /\ ResolvedNames = <<S_b, <<"b","_","1">>, <<"b","_","2">>>>

\* C2 as the claim states it: the rule, and 'My Btn!', 'My_Btn', 'other'
\* resolving to My_Btn, My_Btn_1, other.
C2_Original ==
    /\ C2_RuleInProjectOrder
    /\ Generated /\ Names(widgets) = <<S_My_Btn_bang, S_My_Btn, S_other>>
         => ResolvedNames = <<S_My_Btn, S_My_Btn \o <<"_","1">>, S_other>>

\* C3. sanitize_name replaces every character outside [A-Za-z0-9_] by '_',
\* prefixes '_' when the first character is a digit and returns 'widget' for an
\* empty result; the result is non-empty, made of [A-Za-z0-9_], does not start
\* with a digit, and sanitizing it again changes nothing.
C3_SanitizeName ==
    \A i \in 1..Len(widgets) :
        LET name == widgets[i].name
            s == sanitize_name(name)
            replaced == [k \in 1..Len(name) |->
                           IF name[k] \in LowerCase \cup UpperCase \cup DigitChars \cup {"_"}
                           THEN name[k] ELSE "_"]
        IN  /\ Len(name) = 0 => s = S_widget
            /\ Len(name) > 0 /\ name[1] \in DigitChars =>
                   /\ Len(s) = Len(name) + 1
                   /\ s[1] = "_"
                   /\ \A k \in 1..Len(name) : s[k + 1] = replaced[k]
            /\ Len(name) > 0 /\ name[1] \notin DigitChars =>
                   /\ Len(s) = Len(name)
                   /\ \A k \in 1..Len(name) : s[k] = replaced[k]
            /\ Len(s) > 0
            /\ \A k \in 1..Len(s) : s[k] \in LowerCase \cup UpperCase \cup DigitChars \cup {"_"}
            /\ s[1] \notin DigitChars
            /\ sanitize_name(s) = s
            /\ Generated => export.var_names[widgets[i].id] = s

\* C3 witness: a name with a leading digit and two invalid characters was exported
C3_Witness ==
    /\ Generated
    /\ widgets[1].name = <<"7", "!", " ">>
    /\ export.var_names[widgets[1].id] = <<"_", "7", "_", "_">>

\* C4. The construction statement of each widget references the variable name
\* resolve_variable_names assigned to the widget's id, so two widgets of one
\* project are never constructed under the same variable.
C4_ConstructionUsesResolvedName ==
    GeneratedOK =>
        /\ \A i \in 1..Len(widgets) :
             ConstructVars(MainFile.blocks[i]) = {export.var_names[widgets[i].id]}
        /\ \A i, j \in 1..Len(widgets) :
             i /= j => ConstructVars(MainFile.blocks[i]) \cap ConstructVars(MainFile.blocks[j]) = {}

\* C5. A handler on_<v>_clicked (v the widget's resolved name) is emitted for a
\* widget exactly when the widget has an action descriptor whose type is other
\* than 'none'.
C5_HandlerIffAction ==
    GeneratedOK =>
        \A i \in 1..Len(widgets) :
            on_clicked(export.var_names[widgets[i].id]) \in HandlerNames
                <=> HasAction(widgets[i])

\* the emitted click handlers, and the widgets they were emitted for, both in order
IsClickHandler(h) == h.kind /= "placeholder_helper"
ClickHandlers == SelectSeq(MainFile.handlers, IsClickHandler)
EmitsHandler(w) == w.type = "Button" /\ ActionGetType(w.action) /= "none"
EmittingWidgets == SelectSeq(widgets, EmitsHandler)
Body(h) == [kind |-> h.kind, target |-> h.target]

\* C6. The body of an emitted handler is a classification of action.type, the
\* same in both generators: 'message' shows a message whose content is
\* action.target, 'function' invokes the method named action.target, every other
\* type is a to-do stub that performs no operation.
C6_HandlerBodyClassifiesAction ==
    /\ GeneratedOK =>
         /\ Len(ClickHandlers) = Len(EmittingWidgets)
         /\ \A k \in 1..Len(ClickHandlers) :
              LET h == ClickHandlers[k]
                  a == EmittingWidgets[k].action
              IN  /\ a.present /\ a.type = "message" =>
                        h.kind = "show_message" /\ h.target = a.target
                  /\ a.present /\ a.type = "function" =>
                        h.kind = "call_method" /\ h.target = a.target
                  /\ ~(a.present /\ a.type \in {"message", "function"}) =>
                        h.kind = "todo_pass"
    /\ \A i \in 1..Len(widgets) :
         Body(Qt_generate_button_handler(sanitize_name(widgets[i].name), widgets[i].action))
           = Body(Tk_generate_button_handler(sanitize_name(widgets[i].name), widgets[i].action))

\* C6 witness: an export with a message, a function and a stub handler
C6_Witness ==
    /\ GeneratedOK
    /\ export.lookup = "PyQt6"
    /\ [k \in 1..Len(ClickHandlers) |-> ClickHandlers[k].kind]
         = <<"show_message", "call_method", "todo_pass">>
    /\ ClickHandlers[1].target = S_Done
    /\ ClickHandlers[2].target = S_run

\* the handler names a widget's block wires a click to
Wirings(block) == {block[k].command : k \in 1..Len(block)} \ {<<>>}

\* C7. For every Button whose action type is other than 'none' the main file
\* wires the click to a handler, and the name used in the wiring is the name of
\* the handler defined in the same file for that widget.
C7_ClickWiredToOwnHandler ==
    GeneratedOK =>
        \A i \in 1..Len(widgets) :
            widgets[i].type = "Button" /\ HasAction(widgets[i]) =>
                /\ Wirings(MainFile.blocks[i]) = {on_clicked(export.var_names[widgets[i].id])}
                /\ on_clicked(export.var_names[widgets[i].id]) \in HandlerNames

\* C8. No single widget aborts an export: generate_project does not raise and
\* the main file of the map it returns holds the code of every widget it could
\* generate.
C8_NoWidgetAbortsExport ==
    Generated =>
        /\ export.raised = "none"
        /\ MainFileName(".py") \in DOMAIN export.files
        /\ Len(MainFile.blocks) = Len(widgets)

ClassMap(generator) ==
    IF generator = "PyQt6" THEN Qt_widget_class_map ELSE Tk_widget_class_map

\* C9. For a widget whose type has no entry in the generator's type table the
\* generator emits a marked placeholder instead of construction code.
C9_PlaceholderForUnknownType ==
    GeneratedOK =>
        \A i \in 1..Len(widgets) :
            widgets[i].type \notin DOMAIN ClassMap(export.lookup) =>
                /\ \E k \in 1..Len(MainFile.blocks[i]) : MainFile.blocks[i][k].kind = "placeholder"
                /\ ConstructStmts(MainFile.blocks[i]) = {}

\* C10 (as amended). Looking up a framework key that is not in the registry
\* yields no generator (None); export_code then reports the failure and returns
\* False before generation starts: generate_project is not called and no file
\* is written.
C10_UnknownFrameworkStopsExport ==
    pc = "exported" /\ target_framework \notin _GENERATORS_REGISTRY =>
        /\ export.lookup = "None"
        /\ ~export.generate_called
        /\ export.files = EmptyDict
        /\ export.written = {}
        /\ ~export.returned
        /\ export.shown = "Export Failed: No generator available"

\* C10 witness: an export of a project with widgets under an unregistered key
C10_Witness ==
    /\ pc = "exported"
    /\ target_framework = "CustomTkinter"
    /\ Len(widgets) > 0
    /\ export.lookup = "None"

\* C10 as the claim states it: the lookup signals UnknownFrameworkError, and
\* generation never starts.
C10_Original ==
    pc = "exported" /\ target_framework \notin _GENERATORS_REGISTRY =>
        /\ export.lookup = "UnknownFrameworkError"
        /\ ~export.generate_called
        /\ export.written = {}

-----------------------------------------------------------------------------
\* Claims on project assembly and on the purity of generation.

\* C11. The map returned by generate_project has the key main<ext>, ext the
\* generator's file extension, and its value is the text generate_main_file
\* returns for the project, whatever the generator's generate_additional_files
\* returns.
C11_MainFileIsGenerateMainFile ==
    GeneratedOK =>
        /\ MainFileName(get_file_extension(export.lookup)) \in DOMAIN export.files
        /\ export.files[MainFileName(get_file_extension(export.lookup))]
             = generate_main_file(export.lookup, get_project_data).value

\* C13. generate_project has no side effects: the step in which export_code
\* generates leaves every field of the StateManager as it was, so the project
\* data a second generation reads is the data the first one read.
C13_GenerationLeavesStateUnchanged ==
    [][pc = "idle" /\ pc' = "exported" =>
          /\ widgets' = widgets
          /\ widget_counter' = widget_counter
          /\ target_framework' = target_framework
          /\ project_data' = project_data
          /\ canvas_settings' = canvas_settings
          /\ layer_config' = layer_config
          /\ selected_widget_id' = selected_widget_id
          /\ undo_stack' = undo_stack
          /\ redo_stack' = redo_stack
          /\ unsaved_changes' = unsaved_changes]_vars

\* C13 witness: a generation from a project of two widgets that resolve to
\* different names than they declare
C13_Witness ==
    /\ GeneratedOK
    /\ Len(widgets) = 2
    /\ Names(widgets) /= ResolvedNames

-----------------------------------------------------------------------------
\* Claims on widget ids.

\* the number an id of the form widget_<n> ends with
IdNumber(widget_id) == int(split_last(widget_id)).value

\* the widget sets the project went through, oldest first, when every recorded
\* operation saved the state it started from: the snapshots after the initial
\* one, then the present widgets
WidgetHistory ==
    [k \in 1..Len(undo_stack) |->
        IF k < Len(undo_stack) THEN undo_stack[k + 1].widgets ELSE widgets]

\* C14. Under add_widget and remove_widget every newly added widget gets the id
\* widget_<n> with n greater than the number of every id issued before in the
\* project, removed widgets included.
C14_NewIdAboveEveryIssuedId ==
    \A k \in 2..Len(WidgetHistory) :
        \A new \in WidgetIds(WidgetHistory[k]) \ WidgetIds(WidgetHistory[k - 1]) :
            /\ startswith_widget_(new)
            /\ new = widget_id_of(IdNumber(new))
            /\ \A j \in 1..(k - 1) :
                 \A old \in WidgetIds(WidgetHistory[j]) : IdNumber(new) > IdNumber(old)

\* C14 witness: a widget was added after the widget with the lowest id was removed
C14_Witness ==
    /\ Len(undo_stack) = 4
    /\ WidgetIds(undo_stack[3].widgets) = {widget_id_of(1)}
    /\ undo_stack[4].widgets = <<>>
    /\ WidgetIds(widgets) = {widget_id_of(2)}

\* C15. Between two new_project/load operations the widget-id counter never
\* decreases and no widget id is issued twice, undo and redo included: no step
\* lowers the counter, and a step that raises it brings in only ids numbered
\* above the old counter.
C15_CounterNeverDecreases ==
    [][/\ widget_counter' >= widget_counter
       /\ widget_counter' > widget_counter =>
              \A new \in WidgetIds(widgets') \ WidgetIds(widgets) :
                  IdNumber(new) > widget_counter]_vars

\* C16. add_widget always assigns an id that no widget of the project holds: in
\* every reachable state the widgets have pairwise different ids and the id the
\* next add_widget assigns is not among them.
C16_NextIdIsFree ==
    /\ \A i, j \in 1..Len(widgets) : i /= j => widgets[i].id /= widgets[j].id
    /\ widget_id_of(widget_counter + 1) \notin WidgetIds(widgets)

-----------------------------------------------------------------------------
\* Claims on opening a project.

RequiredFields == {"name", "framework", "main_window"}

C18_FailedOpenChangesNothing ==
    pc = "opened" /\ ~opening.returned =>
        /\ project_data = opening.before.project_data
        /\ widgets = opening.before.widgets
        /\ widget_counter = opening.before.widget_counter
        /\ canvas_settings = opening.before.canvas_settings
        /\ layer_config = opening.before.layer_config
        /\ target_framework = opening.before.target_framework
        /\ undo_stack = opening.before.undo_stack
        /\ redo_stack = opening.before.redo_stack

-----------------------------------------------------------------------------
\* Claims on saving and reloading.

\* the document save_project_to_file writes for get_project_data() and json.load
\* reads back: the widgets as an array in dict order, every other entry as it is
\* (strings, numbers, booleans, arrays and objects with string keys come back
\* from JSON as they went in; the metadata entry is not read by the loader)
project_document(data) ==
    [name |-> data.name, framework |-> data.framework,
     main_window |-> data.main_window,
     widgets |-> [is_list |-> TRUE, items |-> data.widgets],
     canvas_settings |-> data.canvas_settings,
     layer_config |-> data.layer_config]

\* what export_code hands out for a target framework and a get_project_data()
export_content(framework, data) ==
    export_outcome(get_generator(framework), TRUE,
                   generate_project(get_generator(framework), data))

\* the export of the StateManager that load_project_data left
export_of_loaded(loaded) ==
    export_content(loaded.target_framework,
                   project_data_of(loaded.project_data, loaded.widgets,
                                   loaded.canvas_settings, loaded.layer_config))

\* C19. Round trip: in every reachable project state, saving get_project_data
\* to the document and reloading it with load_project_data gives a state whose
\* export equals the export before, with the widgets in the same order.
C19_SaveLoadKeepsExport ==
    pc = "idle" =>
        LET loaded == load_project_data(project_document(get_project_data))
        IN  /\ loaded.raised = "none"
            /\ loaded.widgets = widgets
            /\ export_of_loaded(loaded) = export_content(target_framework, get_project_data)

-----------------------------------------------------------------------------
\* Claims on partial updates.

\* the group after the step has every field it had before, and only the fields
\* in changed may have another value
GroupMerged(before, after, changed) ==
    /\ DOMAIN before \subseteq DOMAIN after
    /\ \A k \in (DOMAIN before) \ changed : after[k] = before[k]

\* C20. A partial update deep-merges: a step of update_widget or
\* update_main_window that gives colors.background a new value leaves every
\* sibling field of the colors group (foreground, border, text) as it was; the
\* group is never replaced wholesale.
C20_PartialUpdateDeepMerges ==
    [][/\ \A i \in 1..Len(widgets) :
              (Len(widgets') = Len(widgets) /\ widgets'[i].id = widgets[i].id)
                  => GroupMerged(widgets[i].colors, widgets'[i].colors, {"background"})
       /\ GroupMerged(project_data.main_window.colors,
                      project_data'.main_window.colors, {"background"})]_vars

-----------------------------------------------------------------------------
\* Canvas and PropertyEditor: the handlers that write a geometry.

\* the id the canvas and the property editor use for the main window
S_main_window == <<"main_window">>

\* round(a / b) for b > 0: to the nearest integer, a tie to the even one
round_div(a, b) ==
    LET q == a \div b
        r == a % b
    IN  IF 2 * r < b THEN q
        ELSE IF 2 * r > b THEN q + 1
        ELSE IF q % 2 = 0 THEN q ELSE q + 1

\* Canvas.snap_to_grid(value), with the grid the canvas reads from the settings
\* when it is set up
snap_to_grid(value) ==
    IF DefaultCanvasSettings.snap_enabled /\ DefaultCanvasSettings.grid_size > 0
    THEN round_div(value, DefaultCanvasSettings.grid_size) * DefaultCanvasSettings.grid_size
    ELSE value

max2(a, b) == IF a >= b THEN a ELSE b
min2(a, b) == IF a <= b THEN a ELSE b

\* the keys of get_resize_handles, and the sides each name holds ("left" in handle)
ResizeHandles ==
    {"top_left", "top_right", "bottom_left", "bottom_right", "top", "bottom", "left", "right"}

HandleSides(resize_handle) ==
    CASE resize_handle = "top_left" -> {"top", "left"}
      [] resize_handle = "top_right" -> {"top", "right"}
      [] resize_handle = "bottom_left" -> {"bottom", "left"}
      [] resize_handle = "bottom_right" -> {"bottom", "right"}
      [] OTHER -> {resize_handle}

\* handle_resize: the x and width for the handle and the mouse at pos_x
resize_x(geometry, sides, pos_x) ==
    IF "left" \in sides
    THEN <<snap_to_grid(pos_x),
           max2(50, geometry[3] + (geometry[1] - snap_to_grid(pos_x)))>>
    ELSE IF "right" \in sides
    THEN <<geometry[1], max2(50, snap_to_grid(pos_x - geometry[1]))>>
    ELSE <<geometry[1], geometry[3]>>

\* handle_resize: the y and height for the handle and the mouse at pos_y
resize_y(geometry, sides, pos_y) ==
    IF "top" \in sides
    THEN <<snap_to_grid(pos_y),
           max2(30, geometry[4] + (geometry[2] - snap_to_grid(pos_y)))>>
    ELSE IF "bottom" \in sides
    THEN <<geometry[2], max2(30, snap_to_grid(pos_y - geometry[2]))>>
    ELSE <<geometry[2], geometry[4]>>

\* new_geometry of handle_resize
handle_resize(geometry, resize_handle, pos) ==
    <<resize_x(geometry, HandleSides(resize_handle), pos[1])[1],
      resize_y(geometry, HandleSides(resize_handle), pos[2])[1],
      resize_x(geometry, HandleSides(resize_handle), pos[1])[2],
      resize_y(geometry, HandleSides(resize_handle), pos[2])[2]>>

\* the geometry handle_drag writes for a mouse move of delta
handle_drag(geometry, delta) ==
    <<snap_to_grid(geometry[1] + delta[1]), snap_to_grid(geometry[2] + delta[2]),
      geometry[3], geometry[4]>>

\* update_geometry_property: geometry.copy() with geometry[index] = value
\* (index counted from 1 here)
update_geometry_property(geometry, index, value) ==
    [geometry EXCEPT ![index] = value]

\* duplicate_widget: a deep copy moved by 20, 20
duplicate_widget(widget) ==
    [widget EXCEPT !.geometry = [@ EXCEPT ![1] = @ + 20, ![2] = @ + 20]]

\* the geometry the handlers read for the target (a widget id or main_window)
geometry_of(target) ==
    IF target = S_main_window THEN project_data.main_window.geometry
    ELSE widgets_getitem(widgets, target).geometry

\* mouse positions of a resize, mouse moves of a drag
PosInputs == {<<250, 250>>}
DeltaInputs == {<<30, 10>>}

\* what the spin boxes of the property editor can hold: x and y in
\* -9999..9999, width and height in 1..9999 (index, value)
GeometryEditInputs == {<<3, 1>>}

\* documents validate_project_data accepts: one whose widget has no width, one
\* whose main window has no height
GeometryDocInputs ==
    {FullDoc @@ [widgets |-> [is_list |-> TRUE,
                              items |-> <<[DocWidget(widget_id_of(1), "Button", S_b)
                                             EXCEPT !.geometry = <<10, 10, 0, 35>>]>>]],
     [FullDoc EXCEPT !.main_window.geometry = <<50, 50, 640, 0>>]}

\* update_widget or update_main_window with {"properties": {"geometry": geometry}}
WriteGeometry(target, geometry) ==
    IF target = S_main_window
    THEN UpdateMainWindow([properties |-> [geometry |-> geometry]])
    ELSE UpdateWidget(target, [properties |-> [geometry |-> geometry]])

\* the targets the canvas can have selected: the widget the StateManager has
\* selected (Canvas.on_selection_changed), or the main window after a click on it
CanvasTargets == (WidgetIds(widgets) \cap {selected_widget_id}) \cup {S_main_window}

\* the handle of the model: a corner, which moves and resizes
HandleInputs == {"top_left"}

\* Canvas.handle_resize(pos) with the handle and the target of the mouse press
HandleResize(target, resize_handle, pos) ==
    /\ target \in CanvasTargets
    /\ WriteGeometry(target, handle_resize(geometry_of(target), resize_handle, pos))

\* Canvas.handle_drag(pos), the mouse moved by delta since drag_start_pos
HandleDrag(target, delta) ==
    /\ target \in CanvasTargets
    /\ handle_drag(geometry_of(target), delta)[1] \in 0..MaxCoord
    /\ handle_drag(geometry_of(target), delta)[2] \in 0..MaxCoord
    /\ WriteGeometry(target, handle_drag(geometry_of(target), delta))

\* PropertyEditor.update_geometry_property(index, value) and the
\* on_property_changed it ends in
UpdateGeometryProperty(target, index, value) ==
    /\ target \in CanvasTargets
    /\ WriteGeometry(target, update_geometry_property(geometry_of(target), index, value))

\* Canvas.duplicate_widget(widget_id)
DuplicateWidget(widget_id) ==
    /\ widget_id \in WidgetIds(widgets)
    /\ Len(widgets) <= MaxCanvasWidgets
    /\ geometry_of(widget_id)[1] + 20 <= MaxCoord
    /\ geometry_of(widget_id)[2] + 20 <= MaxCoord
    /\ AddWidget(duplicate_widget(widgets_getitem(widgets, widget_id)))

\* a canvas session; the drags are those of widgets (the main window is moved
\* by its resize handle)
NextGeometry ==
    \/ \E widget_data \in ButtonInputs : Len(widgets) < MaxCanvasWidgets /\ AddWidget(widget_data)
    \/ \E target \in CanvasTargets, resize_handle \in HandleInputs, pos \in PosInputs :
            HandleResize(target, resize_handle, pos)
    \/ \E target \in CanvasTargets \ {S_main_window}, delta \in DeltaInputs : HandleDrag(target, delta)
    \/ \E target \in CanvasTargets, edit \in GeometryEditInputs :
            UpdateGeometryProperty(target, edit[1], edit[2])
    \/ \E widget_id \in WidgetIds(widgets) : DuplicateWidget(widget_id)
    \/ Undo
    \/ Redo
    \/ \E doc \in GeometryDocInputs : OpenProject(doc)
    \/ OpenReturn

SpecGeometry == Init /\ [][NextGeometry]_vars

\* width and height of a geometry are positive
PositiveSize(geometry) == Len(geometry) = 4 /\ geometry[3] > 0 /\ geometry[4] > 0

\* C21. In every reachable state the geometry of every widget and of the main
\* window has width > 0 and height > 0.
C21_GeometryPositive ==
    /\ PositiveSize(project_data.main_window.geometry)
    /\ \A i \in 1..Len(widgets) : PositiveSize(widgets[i].geometry)

-----------------------------------------------------------------------------
\* Canvas, PropertyEditor and StateManager: the handlers that write a layer.

\* change_widget_layer: max(1, min(max_layers, current_layer + direction))
new_layer(current_layer, direction, max_layers) ==
    max2(1, min2(max_layers, current_layer + direction))

\* Bring Forward / Send Backward of the context menu
DirectionInputs == {1, -1}

\* the configurations update_layer_config is called with
LayerConfigInputs == {[total_layers |-> 3], [total_layers |-> 5]}

\* documents validate_project_data accepts: a widget on layer 7 with no layer
\* configuration, and a configuration of 3 layers with and without widgets
LayerDocInputs ==
    {Restrict(FullDoc, {"name", "framework", "main_window"})
        @@ [widgets |-> [is_list |-> TRUE,
                         items |-> <<[DocWidget(widget_id_of(1), "Button", S_b)
                                        EXCEPT !.layer = 7]>>]],
     FullDoc,
     FullDoc @@ [widgets |-> [is_list |-> TRUE,
                              items |-> <<DocWidget(widget_id_of(1), "Button", S_b)>>]]}

\* Canvas.change_widget_layer(widget_id, direction)
ChangeWidgetLayer(widget_id, direction) ==
    /\ widget_id \in WidgetIds(widgets)
    /\ new_layer(widgets_getitem(widgets, widget_id).layer, direction,
                 layer_config.total_layers)
         /= widgets_getitem(widgets, widget_id).layer
    /\ UpdateWidget(widget_id,
                    [properties |->
                        [layer |-> new_layer(widgets_getitem(widgets, widget_id).layer,
                                             direction, layer_config.total_layers)]])

\* the layer combo box of the property editor: entry index of the
\* total_layers entries, emitted as properties.layer = index + 1
LayerEdit(widget_id, index) ==
    /\ widget_id \in WidgetIds(widgets)
    /\ index \in 0..(layer_config.total_layers - 1)
    /\ UpdateWidget(widget_id, [properties |-> [layer |-> index + 1]])

\* StateManager.update_layer_config(config)
UpdateLayerConfig(config) ==
    /\ pc = "idle"
    /\ HistoryRoom
    /\ layer_config' = dict_update(layer_config, config)
    /\ undo_stack' = stack_push(undo_stack,
                                current_state(project_data, widgets, widget_counter,
                                              selected_widget_id, canvas_settings,
                                              dict_update(layer_config, config)))
    /\ redo_stack' = <<>>
    /\ unsaved_changes' = TRUE
    /\ UNCHANGED <<widgets, widget_counter, target_framework, project_data,
                   selected_widget_id, canvas_settings, pc, export, opening, validation>>

NextLayer ==
    \/ \E widget_data \in ButtonInputs : Len(widgets) < MaxCanvasWidgets /\ AddWidget(widget_data)
    \/ \E widget_id \in WidgetIds(widgets), direction \in DirectionInputs :
            ChangeWidgetLayer(widget_id, direction)
    \/ \E widget_id \in WidgetIds(widgets), index \in 0..(layer_config.total_layers - 1) :
            LayerEdit(widget_id, index)
    \/ \E config \in LayerConfigInputs : UpdateLayerConfig(config)
    \/ \E doc \in LayerDocInputs : OpenProject(doc)
    \/ OpenReturn

SpecLayer == Init /\ [][NextLayer]_vars

\* C22. In every reachable state the layer of every widget is an integer within
\* 1..layer_config.total_layers.
C22_LayerInRange ==
    \A i \in 1..Len(widgets) : widgets[i].layer \in 1..layer_config.total_layers

-----------------------------------------------------------------------------
\* The widget classes and validate_properties.

\* the keys of STANDARD_WIDGETS and CONTAINER_WIDGETS
STANDARD_WIDGETS ==
    {"Button", "Label", "Entry", "Text", "Checkbox", "RadioButton", "ComboBox",
     "ListBox", "Frame", "Tabs", "Slider", "ProgressBar", "SpinBox"}

CONTAINER_WIDGETS == {"MainWindow", "ScrollArea", "GroupBox", "Splitter", "StackedWidget"}

RegisteredTypes == STANDARD_WIDGETS \cup CONTAINER_WIDGETS

\* the base class that decides validate_properties for the class of a type:
\* FrameWidget, TabsWidget and the classes of CONTAINER_WIDGETS extend
\* ContainerWidget, every other class extends StandardWidget
WidgetBase(widget_type) ==
    IF widget_type \in {"Frame", "Tabs"} \cup CONTAINER_WIDGETS
    THEN "ContainerWidget" ELSE "StandardWidget"

\* a geometry value: a list or not, its items, and whether width and height
\* are numbers
Geometry(is_list, items, numbers) ==
    [is_list |-> is_list, items |-> items, numbers |-> numbers]

\* the geometry of get_default_properties() of the class of a type
DefaultGeometry(widget_type) ==
    CASE widget_type = "Button" -> <<100, 100, 100, 35>>
      [] widget_type = "Label" -> <<100, 100, 80, 25>>
      [] widget_type \in {"Entry", "Slider", "ProgressBar"} -> <<100, 100, 200, 25>>
      [] widget_type \in {"Text"} -> <<100, 100, 300, 150>>
      [] widget_type \in {"Checkbox", "RadioButton"} -> <<100, 100, 120, 25>>
      [] widget_type = "ComboBox" -> <<100, 100, 150, 25>>
      [] widget_type \in {"ListBox", "GroupBox"} -> <<100, 100, 200, 150>>
      [] widget_type \in {"Frame", "ScrollArea", "StackedWidget"} -> <<100, 100, 300, 200>>
      [] widget_type \in {"Tabs", "Splitter"} -> <<100, 100, 400, 300>>
      [] widget_type = "SpinBox" -> <<100, 100, 100, 25>>
      [] OTHER -> <<100, 100, 800, 600>>

\* get_default_properties(): the entries validate_properties reads (the main
\* window's defaults have no name)
get_default_properties(widget_type) ==
    IF widget_type = "MainWindow"
    THEN [geometry |-> Geometry(TRUE, DefaultGeometry(widget_type), TRUE)]
    ELSE [name |-> "default_1",
          geometry |-> Geometry(TRUE, DefaultGeometry(widget_type), TRUE)]

\* StandardWidget.validate_properties(properties); a comparison of a
\* non-number with 0 raises inside the try and gives False
StandardWidget_validate_properties(properties) ==
    IF "name" \notin DOMAIN properties \/ properties.name = "" THEN FALSE
    ELSE IF "geometry" \notin DOMAIN properties THEN FALSE
    ELSE IF ~properties.geometry.is_list \/ Len(properties.geometry.items) /= 4 THEN FALSE
    ELSE IF ~properties.geometry.numbers THEN FALSE
    ELSE IF properties.geometry.items[3] <= 0 \/ properties.geometry.items[4] <= 0 THEN FALSE
    ELSE TRUE

\* validate_properties on the object of a type: ContainerWidget and its
\* subclasses define no validate_properties, the method stays abstract and
\* creating the object raises TypeError
validate_properties(widget_type, properties) ==
    IF WidgetBase(widget_type) = "ContainerWidget"
    THEN [raised |-> "TypeError", value |-> FALSE]
    ELSE [raised |-> "none", value |-> StandardWidget_validate_properties(properties)]

\* properties values: the defaults of the type, and the defaults with the name
\* missing or empty, the geometry missing, a tuple, short, with a width or
\* height that is not positive or not a number
PropertiesInputs(widget_type) ==
    {get_default_properties(widget_type),
     [geometry |-> Geometry(TRUE, DefaultGeometry(widget_type), TRUE)],
     [name |-> "", geometry |-> Geometry(TRUE, DefaultGeometry(widget_type), TRUE)],
     [name |-> "w"],
     [name |-> "w", geometry |-> Geometry(FALSE, DefaultGeometry(widget_type), TRUE)],
     [name |-> "w", geometry |-> Geometry(TRUE, <<100, 100, 100>>, TRUE)],
     [name |-> "w", geometry |-> Geometry(TRUE, <<100, 100, 0, 35>>, TRUE)],
     [name |-> "w", geometry |-> Geometry(TRUE, <<100, 100, 100, -1>>, TRUE)],
     [name |-> "w", geometry |-> Geometry(TRUE, <<100, 100, 100, 35>>, FALSE)],
     [name |-> "w", geometry |-> Geometry(TRUE, <<-5, -5, 1, 1>>, TRUE)]}

\* one call of validate_properties on the registered object of the type
ValidateProperties(widget_type, properties) ==
    /\ validation' = [called |-> TRUE, widget_type |-> widget_type,
                      properties |-> properties,
                      raised |-> validate_properties(widget_type, properties).raised,
                      value |-> validate_properties(widget_type, properties).value]
    /\ UNCHANGED <<sm_vars, pc, export, opening>>

NextValidate ==
    \E widget_type \in RegisteredTypes :
        \E properties \in PropertiesInputs(widget_type) :
            ValidateProperties(widget_type, properties)

SpecValidate == Init /\ [][NextValidate]_vars

\* the properties validate_properties has to refuse
BadProperties(properties) ==
    \/ "name" \notin DOMAIN properties
    \/ properties.name = ""
    \/ "geometry" \notin DOMAIN properties
    \/ ~properties.geometry.is_list
    \/ Len(properties.geometry.items) /= 4
    \/ ~properties.geometry.numbers
    \/ properties.geometry.items[3] <= 0
    \/ properties.geometry.items[4] <= 0

\* C23. For every registered widget type and every properties value,
\* validate_properties returns a boolean and never raises; it returns False for
\* a missing or empty name, a missing or malformed geometry and a width or
\* height that is not positive, and True for the type's own default properties.
C23_ValidateNeverRaises ==
    validation.called =>
        /\ validation.raised = "none"
        /\ validation.value \in BOOLEAN
        /\ BadProperties(validation.properties) => ~validation.value
        /\ validation.properties = get_default_properties(validation.widget_type)
              => validation.value

-----------------------------------------------------------------------------
\* Claims on undo and redo.

\* a sequence of add_widget / remove_widget operations, then a single undo
NextUndo ==
    \/ \E widget_data \in WidgetInputs : redo_stack = <<>> /\ AddWidget(widget_data)
    \/ \E widget_id \in WidgetIds(widgets) : redo_stack = <<>> /\ RemoveWidget(widget_id)
    \/ redo_stack = <<>> /\ Undo

SpecUndo == Init /\ [][NextUndo]_vars

\* C24. One undo reverts exactly one recorded operation: after a sequence of
\* add_widget / remove_widget operations a single undo restores the widget set
\* and the widget counter that held right before the most recent operation,
\* which is the snapshot that operation saved and the undo moved to the redo
\* stack.
C24_UndoRevertsOneOperation ==
    Len(redo_stack) = 1 =>
        /\ widgets = redo_stack[1].widgets
        /\ widget_counter = redo_stack[1].widget_counter

\* restore_state(snapshot) on a StateManager whose fields are state
restored(state, snapshot) ==
    [state EXCEPT !.project_data = snapshot.project_data,
                  !.widgets = snapshot.widgets,
                  !.widget_counter = snapshot.widget_counter,
                  !.selected_widget_id = snapshot.selected_widget_id,
                  !.canvas_settings = snapshot.canvas_settings,
                  !.layer_config = snapshot.layer_config]

\* the fields after undo() on a StateManager whose fields are state
undo(state) ==
    IF Len(state.undo_stack) > 1
    THEN [restored(state, state.undo_stack[Len(state.undo_stack) - 1])
            EXCEPT !.undo_stack = SubSeq(state.undo_stack, 1, Len(state.undo_stack) - 1),
                   !.redo_stack = Append(state.redo_stack,
                                         state.undo_stack[Len(state.undo_stack)]),
                   !.unsaved_changes = TRUE]
    ELSE state

\* the fields after redo() on a StateManager whose fields are state
redo(state) ==
    IF state.redo_stack /= <<>>
    THEN [restored(state, state.redo_stack[Len(state.redo_stack)])
            EXCEPT !.redo_stack = SubSeq(state.redo_stack, 1, Len(state.redo_stack) - 1),
                   !.undo_stack = Append(state.undo_stack,
                                         state.redo_stack[Len(state.redo_stack)]),
                   !.unsaved_changes = TRUE]
    ELSE state

can_undo == Len(undo_stack) > 1

\* C25. Undo followed immediately by redo is the identity: in every reachable
\* state where can_undo() holds, undo and then redo restore the project_data,
\* widgets, widget counter and selection that held before the undo.
C25_UndoRedoIdentity ==
    pc = "idle" /\ can_undo =>
        /\ redo(undo(sm_state)).project_data = project_data
        /\ redo(undo(sm_state)).widgets = widgets
        /\ redo(undo(sm_state)).widget_counter = widget_counter
        /\ redo(undo(sm_state)).selected_widget_id = selected_widget_id

\* StateManager.save_state(), the slot of Canvas.widget_modified
SaveState ==
    /\ pc = "idle"
    /\ undo_stack' = stack_push(undo_stack, get_current_state)
    /\ redo_stack' = <<>>
    /\ unsaved_changes' = TRUE
    /\ UNCHANGED <<widgets, widget_counter, target_framework, project_data,
                   selected_widget_id, canvas_settings, layer_config, pc, export,
                   opening, validation>>

\* a session long enough to fill the undo stack: one widget is added early, the
\* canvas reports modifications, and the project is reset or replaced
NextHistory ==
    \/ \E widget_data \in ButtonInputs : Len(widgets) < MaxCanvasWidgets /\ AddWidget(widget_data)
    \/ SaveState
    \/ Undo
    \/ Redo
    \/ NewProject
    \/ OpenProject(FullDoc)
    \/ OpenReturn

SpecHistory == Init /\ [][NextHistory]_vars

\* C26. In every reachable state the undo stack holds at least one and at most
\* max_undo_levels snapshots, and the undo and redo stacks together hold at most
\* max_undo_levels snapshots.
C26_StacksBounded ==
    /\ Len(undo_stack) >= 1
    /\ Len(undo_stack) <= max_undo_levels
    /\ Len(undo_stack) + Len(redo_stack) <= max_undo_levels

\* the oldest snapshot has been dropped from a full stack, and an undo has moved
\* a snapshot to the redo stack
C26_Witness ==
    /\ Len(undo_stack) + Len(redo_stack) = max_undo_levels
    /\ redo_stack /= <<>>
    /\ widgets /= <<>>
    /\ undo_stack[1].widgets /= <<>>

\* StateManager.has_unsaved_changes()
has_unsaved_changes == unsaved_changes

\* C27. A step that modifies the widgets or the main window, other than
\* new_project, a load or mark_as_saved, leaves has_unsaved_changes() true.
C27_ModificationMarksUnsaved ==
    [][(widgets' /= widgets \/ project_data'.main_window /= project_data.main_window)
            => has_unsaved_changes']_vars

\* C28. In every reachable state the target framework of the StateManager is
\* the framework recorded in the project data.
C28_FrameworkInSync ==
    target_framework = project_data.framework

\* the widgets of a project document: the entries of its widgets field, none
\* when it has no such field
doc_widgets(doc) ==
    IF "widgets" \in DOMAIN doc
    THEN {doc.widgets.items[i] : i \in 1..Len(doc.widgets.items)}
    ELSE {}

\* C29. After open_project has validated a document and load_project_data has
\* returned, the widgets of the project are exactly the widgets of the document,
\* and none when the document has no widgets field.
C29_LoadedWidgetsAreTheDocuments ==
    (pc = "opened" /\ opening.validated /\ opening.returned) =>
        {widgets[i] : i \in 1..Len(widgets)} = doc_widgets(opening.doc)

-----------------------------------------------------------------------------
\* Canvas: painting order and hit-testing.

\* sorted(widgets.items(), key=layer, reverse=reverse): the indexes of the widgets
\* in sorted order. The sort is stable in both directions: widgets of one layer
\* keep their order in the dictionary.
sorted_before(ws, i, j, reverse) ==
    \/ (~reverse /\ ws[i].layer < ws[j].layer)
    \/ (reverse /\ ws[i].layer > ws[j].layer)
    \/ (ws[i].layer = ws[j].layer /\ i < j)

sorted_widgets(ws, reverse) ==
    [k \in 1..Len(ws) |->
        CHOOSE i \in 1..Len(ws) :
            Cardinality({j \in 1..Len(ws) : sorted_before(ws, j, i, reverse)}) = k - 1]

\* QRect(geometry[0], geometry[1], geometry[2], geometry[3]).contains(pos), for a
\* rectangle of positive width and height
rect_contains(geometry, pos) ==
    /\ geometry[1] <= pos[1] /\ pos[1] <= geometry[1] + geometry[3] - 1
    /\ geometry[2] <= pos[2] /\ pos[2] <= geometry[2] + geometry[4] - 1

\* the first index of order, from position k on, whose widget contains pos; 0 if none
RECURSIVE first_hit(_, _, _, _)
first_hit(ws, order, pos, k) ==
    IF k > Len(order) THEN 0
    ELSE IF rect_contains(ws[order[k]].geometry, pos) THEN order[k]
    ELSE first_hit(ws, order, pos, k + 1)

\* Canvas.get_widget_at_position(pos)
get_widget_at_position(pos) ==
    IF rect_contains(project_data.main_window.geometry, pos)
    THEN IF first_hit(widgets, sorted_widgets(widgets, TRUE), pos, 1) = 0
         THEN S_main_window
         ELSE widgets[first_hit(widgets, sorted_widgets(widgets, TRUE), pos, 1)].id
    ELSE NoneId

\* Canvas.draw_widgets(painter): the ids of the widgets in the order they are
\* painted, each over the ones before it
draw_widgets ==
    [k \in 1..Len(widgets) |-> widgets[sorted_widgets(widgets, FALSE)[k]].id]

\* the widget painted last among those that contain pos: the one seen there
painted_last(pos) ==
    LET covering == {k \in 1..Len(widgets) :
                        rect_contains(widgets_getitem(widgets, draw_widgets[k]).geometry, pos)}
    IN  IF covering = {} THEN S_main_window
        ELSE draw_widgets[CHOOSE k \in covering : \A other \in covering : other <= k]

\* the points clicked: one inside every new widget, one a dragged widget reaches
ClickInputs == {<<110, 110>>, <<210, 120>>}

\* a canvas with several widgets: they are added at one place, moved, and put on
\* other layers
NextHitTest ==
    \/ \E widget_data \in ButtonInputs : Len(widgets) <= MaxCanvasWidgets /\ AddWidget(widget_data)
    \/ \E widget_id \in WidgetIds(widgets), direction \in DirectionInputs :
            ChangeWidgetLayer(widget_id, direction)
    \/ \E target \in CanvasTargets \ {S_main_window}, delta \in DeltaInputs : HandleDrag(target, delta)

SpecHitTest == Init /\ [][NextHitTest]_vars

\* C30. For every point inside the main window, get_widget_at_position returns
\* the widget containing the point that draw_widgets paints last, also when
\* overlapping widgets share a layer.
C30_HitTestAgreesWithPainting ==
    \A pos \in ClickInputs :
        rect_contains(project_data.main_window.geometry, pos) =>
            get_widget_at_position(pos) = painted_last(pos)

====
